---- MODULE Spec2Model ----
(***************************************************************************)
(* SecureGuard: the background SecurityEngine (src/unnamed/part_000), the  *)
(* PopupController (src/popup.js) and the ContentScriptGuard               *)
(* (src/content.js), modelled as one state machine.  JavaScript runs each  *)
(* handler to its next `await` without interruption, so one action is one  *)
(* such run: the synchronous part of a handler, or the continuation that   *)
(* resumes when the awaited promise settles.                               *)
(***************************************************************************)
EXTENDS Integers, Sequences, FiniteSets, TLC

VARIABLES
  now,              \* Date.now(), in milliseconds
  failures,         \* chrome.storage.local.set calls rejected so far
  userSettings,     \* SecurityEngine.userSettings
  whitelistedSites, \* SecurityEngine.whitelistedSites
  alertQueue,       \* SecurityEngine.alertQueue
  badgeText,        \* chrome.action badge text
  notifications,    \* ids given to chrome.notifications.create
  storage,          \* chrome.storage.local, the records this code writes
  setCalls,         \* chrome.storage.local.set calls not yet settled, oldest first
  messages,         \* runtime messages sent to the engine, with their answers
  requests,         \* the network requests seen by chrome.webRequest
  created,          \* history: one entry per createAlert call, in call order
  popupAlerts,      \* PopupController.alerts
  popupOps,         \* number of popup dismiss/clear clicks so far
  popupSettings,    \* PopupController.settings
  attempts,         \* ContentScriptGuard: one entry per submit event
  modal,            \* the attempt whose .secureguard-modal is in the DOM, or 0
  pageLive,         \* the page and its content script are still there
  sweeps,           \* the runs of the periodic scan's callback, in start order
  pages             \* the pages loaded: checkCurrentPageSecurity of each

engineVars == <<userSettings, whitelistedSites, alertQueue>>
chromeVars == <<badgeText, notifications, storage, setCalls, messages>>
popupVars  == <<popupAlerts, popupOps, popupSettings>>
guardVars  == <<attempts, modal, pageLive>>
vars == <<now, failures, userSettings, whitelistedSites, alertQueue, badgeText,
          notifications, storage, setCalls, messages, requests, created,
          popupAlerts, popupOps, popupSettings, attempts, modal, pageLive,
          sweeps, pages>>

----------------------------------------------------------------------------
(* Bounds of the model.                                                    *)

MaxClock == 1        \* Date.now() ranges over 0..MaxClock
RandomSteps == 1     \* distinct values of Date.now() + Math.random() per ms
MaxRequests == 1     \* network requests observed
MaxFailures == 1     \* storage writes that may be rejected
MaxPopupOps == 2     \* dismiss clicks and CLEAR_ALERT messages
MaxAttempts == 2     \* submit events on the page
MaxChecks == 2       \* CHECK_BREACH messages
MaxScans == 2        \* SCAN_DATA messages
MaxPages == 2        \* pages loaded
MaxSweeps == 2       \* runs of the periodic scan

----------------------------------------------------------------------------
(* Text.  A text is a sequence of tokens; a token records which of the     *)
(* engine's regular expressions match inside it (m) and a serial (s) that  *)
(* tells tokens apart, standing for the matched characters.                *)

Min(S) == CHOOSE x \in S : \A y \in S : x <= y

Tok(s, m) == [s |-> s, m |-> m]

NumPatterns == 6

\* SecurityEngine.sensitivePatterns: pattern i matches a token iff i \in m
sensitivePatterns == 1 .. NumPatterns

getPatternType(index) ==
  LET types == <<"credit_card", "ssn", "email", "ip_address", "password", "api_key">>
  IN  IF index \in DOMAIN types THEN types[index] ELSE "unknown"

\* text.match(pattern): the index of the first match, 0 for null
Match(text, pattern) ==
  LET hits == {j \in 1 .. Len(text) : pattern \in text[j].m}
  IN  IF hits = {} THEN 0 ELSE Min(hits)

RECURSIVE DetectFrom(_, _)
DetectFrom(i, text) ==
  IF i > NumPatterns THEN <<>>
  ELSE LET j == Match(text, i)
           found == IF j = 0 THEN <<>>
                    ELSE <<[type |-> getPatternType(i), value |-> text[j].s, pattern |-> i]>>
       IN  found \o DetectFrom(i + 1, text)

RECURSIVE Concat(_)
Concat(texts) == IF texts = <<>> THEN <<>> ELSE Head(texts) \o Concat(Tail(texts))

\* detection with global patterns (matchAll): one finding per occurrence
detectEveryOccurrence(text) ==
  Concat([i \in 1 .. NumPatterns |->
            LET hits == SelectSeq([j \in 1 .. Len(text) |-> j], LAMBDA j : i \in text[j].m)
            IN  [k \in 1 .. Len(hits) |->
                   [type |-> getPatternType(i), value |-> text[hits[k]].s, pattern |-> i]]])

detectSensitiveData(text) == DetectFrom(1, text)

\* `${key}: ${values.join(', ')} `: the key, a colon and the joined values.
\* The key "password" (or "api_key") followed by ": " and a non-space value
\* is itself a match of the password (API key) pattern.
FormatEntry(key, values) ==
  LET joined == Concat(values)
      m == IF joined = <<>> THEN {}
           ELSE IF key = "password" THEN {5}
           ELSE IF key = "api_key" THEN {6}
           ELSE {}
  IN  <<Tok(0, m)>> \o joined

RECURSIVE FormatEntries(_)
FormatEntries(entries) ==
  IF entries = <<>> THEN <<>>
  ELSE FormatEntry(Head(entries).key, Head(entries).values) \o FormatEntries(Tail(entries))

RECURSIVE DecodeRaw(_)
DecodeRaw(raw) ==
  IF raw = <<>> THEN <<>>
  ELSE (IF Head(raw).hasBytes THEN Head(raw).bytes ELSE <<>>) \o DecodeRaw(Tail(raw))

extractFormData(requestBody) ==
  FormatEntries(requestBody.formData) \o DecodeRaw(requestBody.raw)

----------------------------------------------------------------------------
(* JavaScript values that cross a type boundary.  An alert id is a number; *)
(* the popup reads it back from a data-id attribute, which is a string.    *)

Num(v) == [t |-> "number", v |-> v]
Str(v) == [t |-> "string", v |-> v]

\* `${x}` and x.toString(): the decimal string of a number
NumberToString(x) == Str(x.v)

\* a !== b: no conversion, values of different types differ
StrictNotEqual(a, b) == a # b

\* a != b: a string operand is converted to a number first
LooseNotEqual(a, b) == a.v # b.v

\* Date.now() + Math.random(): the double nearest to the sum.  Near 1.7e12 a
\* double has 2^-12 resolution, here RandomSteps steps per millisecond; a
\* random value within half a step of 1 rounds up to the next millisecond.
RandomValues == 0 .. RandomSteps

NewId(t, rnd) == Num(t * RandomSteps + rnd)

\* the values Date.now() may return at the next read: time does not go back
ClockValues == now .. MaxClock

EmptyString == [t |-> "string", v |-> -1]

\* {}: an object without properties
EmptyObject == <<>>

\* { ...a, ...b }: the properties of a, overridden and extended by those of b
Spread(a, b) ==
  [key \in DOMAIN a \cup DOMAIN b |-> IF key \in DOMAIN b THEN b[key] ELSE a[key]]

----------------------------------------------------------------------------
(* Inputs: the requests, headers and bodies the browser may hand over.     *)

Plain == Tok(1, {})
Card  == Tok(2, {1})
Mail  == Tok(3, {3})
Key   == Tok(4, {6})

NoBody    == [formData |-> <<>>, raw |-> <<>>]
CleanForm == [formData |-> <<[key |-> "q", values |-> <<(<<Plain>>)>>]>>, raw |-> <<>>]
LoginForm == [formData |-> <<[key |-> "password", values |-> <<(<<Plain>>)>>]>>,
              raw |-> <<[hasBytes |-> TRUE, bytes |-> <<Card>>]>>]

Header(name, hasValue, value) == [name |-> name, hasValue |-> hasValue, value |-> value]

\* details of chrome.webRequest; requestBody is undefined iff ~hasBody
Details(host, body, headers) ==
  [url |-> [host |-> host], hasBody |-> body # NoBody, requestBody |-> body,
   requestHeaders |-> headers]

TwoLeaks == <<Header("X-API-Key", TRUE, <<Key>>),
              Header("Proxy-Authorization", TRUE, <<Mail>>)>>

OneLeak == <<Header("Cookie", TRUE, <<Mail>>), Header("Authorization", TRUE, <<Mail>>)>>

RequestDetails ==
  { Details("bank.example", LoginForm, OneLeak),
    Details("shop.example", LoginForm, OneLeak),
    Details("shop.example", NoBody, TwoLeaks),
    Details("shop.example", CleanForm, <<Header("Authorization", TRUE, <<Plain>>)>>),
    Details("shop.example", NoBody,
            <<Header("X-Auth-Token", FALSE, <<>>), Header("Authorization", TRUE, <<Key>>)>>) }

\* new URL(details.url).hostname
Hostname(url) == url.host

\* stored.whitelist, as found by init()
StoredWhitelists == {{"bank.example"}}

\* stored.settings || the defaults, as found by init(); the fields the engine reads
StoredSettings ==
  {[realTimeScanning |-> b, darkWebScanning |-> TRUE] : b \in BOOLEAN}

----------------------------------------------------------------------------
(* SecurityEngine: alerts.                                                 *)

Alert(type, severity, url, data, header) ==
  [id |-> Num(0), type |-> type, severity |-> severity, url |-> url,
   data |-> data, header |-> header, timestamp |-> 0]

Cont(fn, id, caller, req, next) ==
  [fn |-> fn, id |-> id, caller |-> caller, req |-> req, next |-> next]

SetCall(key, value, k) == [key |-> key, value |-> value, k |-> k]

\* this.alertQueue.unshift(alert): the new alert goes to the front
Unshift(queue, alert) == <<alert>> \o queue

\* this.alertQueue.push(alert)
Push(queue, alert) == Append(queue, alert)

\* The caller's timestamp: Date.now(), then createAlert up to its await: id,
\* push, chrome.storage.local.set(...).  t is the time read, rnd the random
\* value, calls the unsettled set calls at this point.
CreateAlert(draft, t, rnd, origin, caller, req, next, calls) ==
  LET alert == [draft EXCEPT !.timestamp = t, !.id = NewId(t, rnd)]
  IN  /\ now' = t
      /\ alertQueue' = Push(alertQueue, alert)
      /\ setCalls' = Append(calls,
            SetCall("alerts", alertQueue', Cont("createAlert", alert.id, caller, req, next)))
      /\ created' = Append(created, [id |-> alert.id, origin |-> origin])

NoAlert(calls) ==
  /\ now' = now
  /\ alertQueue' = alertQueue
  /\ setCalls' = calls
  /\ created' = created

\* createAlert after its await: notification and badge
BadgeAfterCreate(queue) == NumberToString(Num(Len(queue)))

\* clearAlert by findIndex and splice(i, 1): for an absent id i is -1, and
\* splice(-1, 1) drops the last element
clearAlertSplice(queue, id) ==
  LET hits == {i \in DOMAIN queue : queue[i].id = id}
      at == IF hits = {} THEN Len(queue) ELSE Min(hits)
  IN  [i \in 1 .. (IF queue = <<>> THEN 0 ELSE Len(queue) - 1) |->
         IF i < at THEN queue[i] ELSE queue[i + 1]]

\* clearAlert: this.alertQueue.filter(alert => alert.id !== id)
clearAlertFilter(queue, id) ==
  SelectSeq(queue, LAMBDA alert : StrictNotEqual(alert.id, id))

\* clearAlert after its await: the badge
BadgeAfterClear(queue) ==
  IF Len(queue) # 0 THEN NumberToString(Num(Len(queue))) ELSE EmptyString

----------------------------------------------------------------------------
(* SecurityEngine: interception.                                           *)

\* analyzeRequest without its whitelist test
RequestGateNoWhitelist(settings, whitelist, details) ==
  IF ~settings.realTimeScanning THEN "Disabled"
  ELSE IF ~details.hasBody THEN "NoBody"
  ELSE "Extracted"

\* analyzeRequest's early returns
RequestGate(settings, whitelist, details) ==
  IF ~settings.realTimeScanning THEN "Disabled"
  ELSE IF Hostname(details.url) \in whitelist THEN "Whitelisted"
  ELSE IF ~details.hasBody THEN "NoBody"
  ELSE "Extracted"

\* analyzeHeaders has no early return
HeaderGate(settings, whitelist, details) == "Extracted"

suspiciousHeaders == {"x-api-key", "authorization", "x-auth-token"}

ToLowerCase(name) ==
  CASE name = "Authorization"       -> "authorization"
    [] name = "Proxy-Authorization" -> "proxy-authorization"
    [] name = "X-API-Key"           -> "x-api-key"
    [] name = "X-Auth-Token"        -> "x-auth-token"
    [] name = "Cookie"              -> "cookie"
    [] OTHER                        -> name

\* s.includes(h): h occurs in s
Includes(s, h) == s = h \/ (s = "proxy-authorization" /\ h = "authorization")

IsSuspicious(name) == \E h \in suspiciousHeaders : Includes(ToLowerCase(name), h)

\* The for loop of analyzeHeaders from header i on, up to its next await,
\* its end, or an exception (header.value undefined: text.match throws).
RECURSIVE ScanHeaders(_, _)
ScanHeaders(headers, i) ==
  IF i > Len(headers) THEN [kind |-> "done", at |-> i]
  ELSE IF ~IsSuspicious(headers[i].name) THEN ScanHeaders(headers, i + 1)
  ELSE IF ~headers[i].hasValue THEN [kind |-> "throw", at |-> i]
  ELSE IF detectSensitiveData(headers[i].value) # <<>> THEN [kind |-> "alert", at |-> i]
  ELSE ScanHeaders(headers, i + 1)

\* The extraInfoSpec a listener is registered with.
ExtraInfoSpec(event) ==
  IF event = "onBeforeRequest" THEN {"requestBody"} ELSE {"requestHeaders"}

\* a listener that answers { cancel: true } when it has findings
ListenerReturnCancel(findings) == IF findings THEN "cancel" ELSE "promise"

\* What analyzeRequest and analyzeHeaders hand back to chrome.webRequest:
\* they are async functions, so a promise (of undefined), whatever they find
\* and whatever is thrown inside.
ListenerReturn(findings) == "promise"

\* What chrome.webRequest does with it: only a listener registered with
\* 'blocking' can cancel, redirect or modify; otherwise the request proceeds
\* as soon as the listener has returned.
WebRequestDecision(event, returned) ==
  IF "blocking" \in ExtraInfoSpec(event) /\ returned \in {"cancel", "redirect", "modify"}
  THEN returned ELSE "proceed"

\* the events of a request, in the order they fire
WebRequestEvents == <<"onBeforeRequest", "onBeforeSendHeaders">>

\* returned: what each listener run so far has returned, by event
Request(details, body, headers, returned) ==
  [details |-> details, body |-> body, headers |-> headers, returned |-> <<returned>>]

\* analyzeHeaders from header `from` on, for request r
RunHeaders(r, from, calls) ==
  LET d == requests[r].details
      ev == ScanHeaders(d.requestHeaders, from)
      \* the first run is the listener's call: it returns at its first await or end
      returned == IF from = 1
                  THEN Append(requests[r].returned, ListenerReturn(ev.kind = "alert"))
                  ELSE requests[r].returned
  IN  IF ev.kind = "alert"
      THEN /\ \E t \in ClockValues, rnd \in RandomValues :
                CreateAlert(Alert("header_leak", "medium", d.url, <<>>,
                                  d.requestHeaders[ev.at].name),
                            t, rnd, <<"header", r, ev.at>>, "analyzeHeaders", r, ev.at + 1, calls)
           /\ requests' = [requests EXCEPT ![r].headers = "Awaiting",
                                           ![r].returned = returned]
      ELSE /\ NoAlert(calls)
           /\ requests' = [requests EXCEPT ![r].headers =
                              IF ev.kind = "throw" THEN "Error" ELSE "Done",
                                           ![r].returned = returned]

\* analyzeRequest(details), to its await
AnalyzeRequest(details) ==
  LET gate == RequestGate(userSettings, whitelistedSites, details)
      r == Len(requests) + 1
      leaks == detectSensitiveData(extractFormData(details.requestBody))
  IN  /\ IF gate = "Extracted" /\ leaks # <<>>
         THEN /\ \E t \in ClockValues, rnd \in RandomValues :
                   CreateAlert(Alert("data_transmission", "high", details.url, leaks, ""),
                               t, rnd, <<"body", r, 0>>, "analyzeRequest", r, 0, setCalls)
              /\ requests' = Append(requests,
                    Request(details, "Awaiting", "NotFired", ListenerReturn(TRUE)))
         ELSE /\ NoAlert(setCalls)
              /\ requests' = Append(requests,
                    Request(details, IF gate = "Extracted" THEN "NoFinding" ELSE gate,
                            "NotFired", ListenerReturn(FALSE)))
      /\ UNCHANGED <<failures, userSettings, whitelistedSites, badgeText,
                     notifications, storage, messages, popupVars>>

\* chrome.webRequest.onBeforeRequest for a request of some page
OnBeforeRequest(details) ==
  /\ Len(requests) < MaxRequests
  /\ AnalyzeRequest(details)
  /\ UNCHANGED guardVars
  /\ UNCHANGED <<sweeps, pages>>

\* chrome.webRequest.onBeforeSendHeaders -> analyzeHeaders(details), to its await
AnalyzeHeaders(r) ==
  /\ r \in DOMAIN requests
  /\ requests[r].headers = "NotFired"
  /\ HeaderGate(userSettings, whitelistedSites, requests[r].details) = "Extracted"
  /\ RunHeaders(r, 1, setCalls)
  /\ UNCHANGED <<failures, userSettings, whitelistedSites, badgeText,
                 notifications, storage, messages, popupVars, guardVars>>
  /\ UNCHANGED <<sweeps, pages>>

----------------------------------------------------------------------------
(* SecurityEngine: breach checks and the periodic scan.                    *)

\* a property read as a condition: a missing property is undefined, falsy
Truthy(object, key) == key \in DOMAIN object /\ object[key]

\* a function that returns without a value, or a promise resolved with none
Undefined == [undefined |-> TRUE]

\* checkDataBreach without its early return
BreachGateOpen(settings) == "Fetch"

\* checkDataBreach's early return
BreachGate(settings) ==
  IF ~Truthy(settings, "darkWebScanning") THEN "Disabled" ELSE "Fetch"

NotChecked == [checked |-> FALSE, reason |-> "Disabled"]

\* What the fetch of checkDataBreach may do:
\*   "200"      status 200 with a JSON array of breaches
\*   "200text"  status 200 with a body that is no JSON: res.json() rejects
\*   "404"      status 404
\*   "other"    any other status (401 bad key, 429 rate limit, 503)
\*   "throws"   the fetch rejects (no network, DNS)
BreachOutcomes == {"200", "200text", "404", "other", "throws"}

\* checkDataBreach from its fetch on; the service reports one breach
checkDataBreachResult(outcome) ==
  CASE outcome = "200"   -> [breached |-> TRUE, breaches |-> <<"Adobe">>, count |-> 1]
    [] outcome = "200empty" -> [breached |-> TRUE, breaches |-> <<>>, count |-> 0]
    [] outcome = "404"   -> [breached |-> FALSE, message |-> "No breaches found"]
    [] outcome \in {"200text", "throws"} -> [error |-> TRUE, message |-> "API error"]
    [] OTHER             -> Undefined

\* the stored 'watchedEmails' record; nothing in this code writes it
WatchedEmails == <<"ann@example.org", "bob@example.org">>

\* What the fetch may do for an entry of the sweep; "200empty" is status 200
\* with an empty array of breaches.
SweepOutcomes == {"200", "200empty", "404", "other", "throws"}

BreachAlert(email, count) ==
  [id |-> Num(0), type |-> "breach_detected", severity |-> "critical",
   email |-> email, count |-> count, timestamp |-> 0]

\* a run of the interval's callback; log: what became of each entry so far;
\* overlapped: an earlier run was still going when this one started
Sweep(phase, overlapped) ==
  [phase |-> phase, pos |-> 0, log |-> <<>>, overlapped |-> overlapped]

Running == {s \in DOMAIN sweeps : sweeps[s].phase \in {"Loading", "Fetching", "Alerting"}}

\* res.breached && res.count > 0
RaisesAlert(res) == Truthy(res, "breached") /\ res.count > 0

\* The for loop from entry pos on, up to its next pending await or its end.
\* With darkWebScanning off checkDataBreach returns { checked: false } at
\* once, which raises no alert, and the loop goes on in the same turn.
RECURSIVE SweepFrom(_, _, _)
SweepFrom(sweep, pos, settings) ==
  IF pos > Len(WatchedEmails) THEN [sweep EXCEPT !.phase = "Done", !.pos = pos]
  ELSE IF BreachGate(settings) = "Disabled"
       THEN SweepFrom([sweep EXCEPT !.log = Append(@, "NotChecked")], pos + 1, settings)
       ELSE [sweep EXCEPT !.phase = "Fetching", !.pos = pos]

\* the sweep whose createAlert has completed goes on with its next entry
ResumeSweep(k) ==
  IF k.fn = "createAlert" /\ k.caller = "sweep"
  THEN [sweeps EXCEPT ![k.req] = SweepFrom(@, k.next, userSettings)]
  ELSE sweeps

\* createAlert throws inside the loop: nothing catches it, the callback's
\* promise rejects and the remaining entries are not looked at
AbortSweep(k) ==
  IF k.fn = "createAlert" /\ k.caller = "sweep"
  THEN [sweeps EXCEPT ![k.req].phase = "Aborted"]
  ELSE sweeps

----------------------------------------------------------------------------
(* chrome.storage.local.set settles: the awaiting function resumes.        *)

Message(type, alertId, status) == [type |-> type, alertId |-> alertId, status |-> status]

\* the continuation of createAlert, then of its caller
ResumeCreateAlert(k, calls) ==
  /\ notifications' = notifications \cup {NumberToString(k.id)}
  /\ badgeText' = BadgeAfterCreate(alertQueue)
  /\ IF k.caller = "analyzeHeaders"
     THEN RunHeaders(k.req, k.next, calls)
     ELSE /\ NoAlert(calls)
          /\ requests' = IF k.caller = "sweep" THEN requests
                         ELSE [requests EXCEPT ![k.req].body = "AlertCreated"]
  /\ UNCHANGED <<messages, popupVars>>

\* the continuation of clearAlert, then sendResponse({ success: true })
ResumeClearAlert(k, calls) ==
  /\ badgeText' = BadgeAfterClear(alertQueue)
  /\ messages' = [messages EXCEPT ![k.req].status = "success"]
  /\ NoAlert(calls)
  /\ UNCHANGED <<notifications, requests, popupVars>>

\* the continuation of PopupController.dismissAlert: sendMessage(CLEAR_ALERT)
ResumeDismissAlert(k, calls) ==
  /\ messages' = Append(messages, Message("CLEAR_ALERT", k.id, "sent"))
  /\ NoAlert(calls)
  /\ UNCHANGED <<badgeText, notifications, requests, popupVars>>

\* the continuation of PopupController.clearAlerts: sendMessage(CLEAR_ALL_ALERTS)
ResumeClearAlerts(k, calls) ==
  /\ messages' = Append(messages, [type |-> "CLEAR_ALL_ALERTS", status |-> "sent"])
  /\ NoAlert(calls)
  /\ UNCHANGED <<badgeText, notifications, requests, popupVars>>

\* the continuation of PopupController.updateSetting: sendMessage(UPDATE_SETTINGS)
\* with this.settings as it is by now
ResumeUpdateSetting(k, calls) ==
  /\ messages' = Append(messages,
        [type |-> "UPDATE_SETTINGS", settings |-> popupSettings, status |-> "sent"])
  /\ NoAlert(calls)
  /\ UNCHANGED <<badgeText, notifications, requests, popupVars>>

\* the continuation of updateSettings, then sendResponse({ success: true })
ResumeUpdateSettings(k, calls) ==
  /\ messages' = [messages EXCEPT ![k.req].status = "success"]
  /\ NoAlert(calls)
  /\ UNCHANGED <<badgeText, notifications, requests, popupVars>>

StorageSetResolves ==
  /\ setCalls # <<>>
  /\ LET call == Head(setCalls)
         k == call.k
         calls == Tail(setCalls)
     IN  /\ storage' = [storage EXCEPT ![call.key] = call.value]
         /\ CASE k.fn = "createAlert"  -> ResumeCreateAlert(k, calls)
              [] k.fn = "clearAlert"   -> ResumeClearAlert(k, calls)
              [] k.fn = "dismissAlert" -> ResumeDismissAlert(k, calls)
              [] k.fn = "clearAlerts"  -> ResumeClearAlerts(k, calls)
              [] k.fn = "updateSetting"  -> ResumeUpdateSetting(k, calls)
              [] k.fn = "updateSettings" -> ResumeUpdateSettings(k, calls)
         /\ sweeps' = ResumeSweep(k)
  /\ UNCHANGED <<failures, userSettings, whitelistedSites, guardVars, pages>>

\* The write fails (quota, I/O): the promise rejects and the awaiting
\* function throws at its await.  analyzeRequest and analyzeHeaders catch
\* and log; the callers of clearAlert and updateSettings have no rejection
\* handler, so sendResponse is never called; dismissAlert, clearAlerts and
\* updateSetting of the popup stop before their sendMessage.
StorageSetRejects ==
  /\ setCalls # <<>>
  /\ failures < MaxFailures
  /\ failures' = failures + 1
  /\ LET k == Head(setCalls).k
     IN  /\ requests' = IF k.fn # "createAlert" \/ k.caller = "sweep" THEN requests
                        ELSE IF k.caller = "analyzeHeaders"
                             THEN [requests EXCEPT ![k.req].headers = "Error"]
                             ELSE [requests EXCEPT ![k.req].body = "Error"]
         /\ messages' = IF k.fn \in {"clearAlert", "updateSettings"}
                        THEN [messages EXCEPT ![k.req].status = "none"]
                        ELSE messages
         /\ sweeps' = AbortSweep(k)
  /\ NoAlert(Tail(setCalls))
  /\ UNCHANGED <<userSettings, whitelistedSites, badgeText, notifications,
                 storage, popupVars, guardVars, pages>>

----------------------------------------------------------------------------
(* Messages to the engine.                                                 *)

Unhandled == {m \in DOMAIN messages : messages[m].status = "sent"}

\* the cases of the listener's switch
HandledTypes == {"SCAN_DATA", "CHECK_BREACH", "UPDATE_SETTINGS", "GET_ALERTS", "CLEAR_ALERT"}

\* runtime.onMessage, case 'CLEAR_ALERT': clearAlert(message.alertId), to its await
OnClearAlert ==
  /\ Unhandled # {}
  /\ LET m == Min(Unhandled)
     IN  /\ messages[m].type = "CLEAR_ALERT"
         /\ alertQueue' = clearAlertFilter(alertQueue, messages[m].alertId)
         /\ setCalls' = Append(setCalls,
               SetCall("alerts", alertQueue',
                       Cont("clearAlert", messages[m].alertId, "onMessage", m, 0)))
         /\ messages' = [messages EXCEPT ![m].status = "pending"]
  /\ UNCHANGED <<now, failures, userSettings, whitelistedSites, badgeText,
                 notifications, storage, requests, created, popupVars, guardVars>>
  /\ UNCHANGED <<sweeps, pages>>

\* runtime.onMessage for a type the switch has no case for: the listener
\* returns undefined, nothing is done and sendResponse is never called
OnUnknownMessage ==
  /\ Unhandled # {}
  /\ LET m == Min(Unhandled)
     IN  /\ messages[m].type \notin HandledTypes
         /\ messages' = [messages EXCEPT ![m].status = "none"]
  /\ UNCHANGED <<now, failures, engineVars, badgeText, notifications, storage,
                 setCalls, requests, created, popupVars, guardVars>>
  /\ UNCHANGED <<sweeps, pages>>

\* runtime.onMessage, case 'GET_ALERTS': sendResponse(this.alertQueue)
GetAlerts(queue) == queue

\* updateSettings with the spread the other way round: { ...settings,
\* ...this.userSettings }, where the current values win
updateSettingsKeep(current, settings) == Spread(settings, current)

\* updateSettings: { ...this.userSettings, ...settings }
updateSettingsMerge(current, settings) == Spread(current, settings)

\* runtime.onMessage, case 'UPDATE_SETTINGS': updateSettings(message.settings),
\* to its await
OnUpdateSettings ==
  /\ Unhandled # {}
  /\ LET m == Min(Unhandled)
     IN  /\ messages[m].type = "UPDATE_SETTINGS"
         /\ userSettings' = updateSettingsMerge(userSettings, messages[m].settings)
         /\ setCalls' = Append(setCalls,
               SetCall("settings", userSettings',
                       Cont("updateSettings", Num(-1), "onMessage", m, 0)))
         /\ messages' = [messages EXCEPT ![m].status = "pending"]
  /\ UNCHANGED <<now, failures, whitelistedSites, alertQueue, badgeText,
                 notifications, storage, requests, created, popupVars, guardVars>>
  /\ UNCHANGED <<sweeps, pages>>

\* runtime.onMessage, case 'CHECK_BREACH': checkDataBreach(message.email), to
\* its await; with darkWebScanning off the promise is resolved already and
\* its then-callback answers
OnCheckBreach ==
  /\ Unhandled # {}
  /\ LET m == Min(Unhandled)
     IN  /\ messages[m].type = "CHECK_BREACH"
         /\ messages' = [messages EXCEPT ![m] =
               IF BreachGate(userSettings) = "Disabled"
               THEN [@ EXCEPT !.status = "answered", !.response = NotChecked]
               ELSE [@ EXCEPT !.status = "pending", !.fetched = TRUE]]
  /\ UNCHANGED <<now, failures, engineVars, badgeText, notifications, storage,
                 setCalls, requests, created, popupVars, guardVars>>
  /\ UNCHANGED <<sweeps, pages>>

\* the fetch of checkDataBreach settles: the result goes to sendResponse
BreachFetchSettles(m, outcome) ==
  /\ m \in DOMAIN messages
  /\ messages[m].type = "CHECK_BREACH"
  /\ messages[m].status = "pending"
  /\ messages' = [messages EXCEPT ![m].status = "answered",
                                  ![m].outcome = outcome,
                                  ![m].response = checkDataBreachResult(outcome)]
  /\ UNCHANGED <<now, failures, engineVars, badgeText, notifications, storage,
                 setCalls, requests, created, popupVars, guardVars>>
  /\ UNCHANGED <<sweeps, pages>>

\* The ids a dismissal may name: those of the alerts in the queue or in the
\* persisted record, and one that no alert has.
Ids(alerts) == {alerts[i].id : i \in DOMAIN alerts}

IdValues == Ids(alertQueue) \cup Ids(storage.alerts) \cup {Num(-1)}

\* Another extension page dismisses by the alert's own (numeric) id.
SendClearAlert(id) ==
  /\ popupOps < MaxPopupOps
  /\ popupOps' = popupOps + 1
  /\ messages' = Append(messages, Message("CLEAR_ALERT", id, "sent"))
  /\ UNCHANGED <<now, failures, engineVars, badgeText, notifications, storage,
                 setCalls, requests, created, popupAlerts, popupSettings, guardVars>>
  /\ UNCHANGED <<sweeps, pages>>

----------------------------------------------------------------------------
(* PopupController.                                                        *)

\* loadData (init and the 5 s refresh): this.settings = result.settings || the
\* defaults (the record always holds settings here), this.alerts = result.alerts || []
LoadData ==
  /\ <<popupAlerts, popupSettings>> # <<storage.alerts, storage.settings>>
  /\ popupAlerts' = storage.alerts
  /\ popupSettings' = storage.settings
  /\ UNCHANGED <<now, failures, engineVars, chromeVars, requests, created,
                 popupOps, guardVars>>
  /\ UNCHANGED <<sweeps, pages>>

\* this.alerts.filter(a => a.id != id)
dismissAlertFilter(alerts, id) ==
  SelectSeq(alerts, LAMBDA a : LooseNotEqual(a.id, id))

\* renderAlerts: data-id="${alert.id}"; the click hands dataset.id on
DatasetId(alert) == NumberToString(alert.id)

\* click on the Dismiss button of the i-th rendered alert: dismissAlert, to its await
DismissAlert(i) ==
  /\ popupOps < MaxPopupOps
  /\ i \in DOMAIN popupAlerts
  /\ LET id == DatasetId(popupAlerts[i])
     IN  /\ popupAlerts' = dismissAlertFilter(popupAlerts, id)
         /\ setCalls' = Append(setCalls,
               SetCall("alerts", popupAlerts', Cont("dismissAlert", id, "popup", 0, 0)))
  /\ popupOps' = popupOps + 1
  /\ UNCHANGED <<now, failures, engineVars, badgeText, notifications, storage,
                 messages, requests, created, popupSettings, guardVars>>
  /\ UNCHANGED <<sweeps, pages>>

\* click on 'Clear alerts': clearAlerts, to its await.  The listeners are
\* set up once loadData has run.
ClearAlerts ==
  /\ popupOps < MaxPopupOps
  /\ popupSettings # EmptyObject
  /\ popupAlerts' = <<>>
  /\ setCalls' = Append(setCalls,
        SetCall("alerts", <<>>, Cont("clearAlerts", Num(-1), "popup", 0, 0)))
  /\ popupOps' = popupOps + 1
  /\ UNCHANGED <<now, failures, engineVars, badgeText, notifications, storage,
                 messages, requests, created, popupSettings, guardVars>>
  /\ UNCHANGED <<sweeps, pages>>

\* the toggles of the settings tab
SettingKeys == {"darkWebScanning", "realTimeScanning"}

\* click on a toggle: classList.toggle('active') flips what updateUI showed,
\* !!this.settings[setting]; then updateSetting(setting, enabled), to its await
UpdateSetting(key) ==
  /\ popupOps < MaxPopupOps
  /\ popupSettings # EmptyObject
  /\ LET shown == key \in DOMAIN popupSettings /\ popupSettings[key]
         enabled == ~shown
     IN  popupSettings' = Spread(popupSettings, [k \in {key} |-> enabled])
  /\ setCalls' = Append(setCalls,
        SetCall("settings", popupSettings', Cont("updateSetting", Num(-1), "popup", 0, 0)))
  /\ popupOps' = popupOps + 1
  /\ UNCHANGED <<now, failures, engineVars, badgeText, notifications, storage,
                 messages, requests, created, popupAlerts, guardVars>>
  /\ UNCHANGED <<sweeps, pages>>

\* click on 'Check': checkBreaches sends CHECK_BREACH and awaits the answer
CheckBreaches ==
  /\ popupSettings # EmptyObject
  /\ Cardinality({m \in DOMAIN messages : messages[m].type = "CHECK_BREACH"}) < MaxChecks
  /\ messages' = Append(messages,
        [type |-> "CHECK_BREACH", status |-> "sent", fetched |-> FALSE,
         outcome |-> "none", response |-> Undefined])
  /\ UNCHANGED <<now, failures, engineVars, badgeText, notifications, storage,
                 setCalls, requests, created, popupVars, guardVars>>
  /\ UNCHANGED <<sweeps, pages>>

----------------------------------------------------------------------------
(* SecurityEngine: scan requests (SCAN_DATA).                              *)

\* What the fetch of checkUrlReputation may do:
\*   "matches"   a JSON body with a nonempty matches array
\*   "nomatches" a 2xx response, a JSON body without matches
\*   "non2xx"    a non-2xx response (400 for the placeholder key, 403, 429)
\*               with the service's JSON error body: fetch does not throw on
\*               a status, and res.ok / res.status are not looked at
\*   "throws"    the fetch rejects, or the body is no JSON
FetchOutcomes == {"matches", "nomatches", "non2xx", "throws"}

\* checkUrlReputation: hasMalicious tells whether the result has the field
checkUrlReputation(outcome) ==
  IF outcome = "throws"
  THEN [error |-> TRUE, hasMalicious |-> FALSE, malicious |-> FALSE]
  ELSE [error |-> FALSE, hasMalicious |-> TRUE, malicious |-> outcome = "matches"]

scanDataForLeaks(data, outcome) ==
  LET leaks == detectSensitiveData(data)
      reputation == checkUrlReputation(outcome)
      r1 == IF leaks # <<>> THEN <<"Sensitive data detected.">> ELSE <<>>
      r2 == IF reputation.hasMalicious /\ reputation.malicious
            THEN <<"Warning: Potentially malicious site.">> ELSE <<>>
  IN  [sensitiveData |-> leaks, reputation |-> reputation, recommendations |-> r1 \o r2]

\* The texts sent for scanning: every combination of detectors matching in
\* one token, two tokens matched by the same detector, and the empty text.
ScanTexts ==
  {<<>>}
  \cup {<<Tok(1, m)>> : m \in SUBSET sensitivePatterns}
  \cup {<<Tok(1, {i}), Tok(2, {i})>> : i \in sensitivePatterns}

Scans == {m \in DOMAIN messages : messages[m].type = "SCAN_DATA"}

\* runtime.onMessage, case 'SCAN_DATA': scanDataForLeaks(message.data, url), to
\* its await of checkUrlReputation's fetch
OnScanData(data) ==
  /\ Cardinality(Scans) < MaxScans
  /\ messages' = Append(messages,
        [type |-> "SCAN_DATA", data |-> data, status |-> "pending",
         outcome |-> "none", response |-> Undefined])
  /\ UNCHANGED <<now, failures, engineVars, badgeText, notifications, storage,
                 setCalls, requests, created, popupVars, guardVars>>
  /\ UNCHANGED <<sweeps, pages>>

\* the fetch settles: scanDataForLeaks resumes and its result goes to sendResponse
ScanFetchSettles(m, outcome) ==
  /\ m \in Scans
  /\ messages[m].status = "pending"
  /\ messages' = [messages EXCEPT ![m].status = "answered",
                                  ![m].outcome = outcome,
                                  ![m].response = scanDataForLeaks(messages[m].data, outcome)]
  /\ UNCHANGED <<now, failures, engineVars, badgeText, notifications, storage,
                 setCalls, requests, created, popupVars, guardVars>>
  /\ UNCHANGED <<sweeps, pages>>

----------------------------------------------------------------------------
(* SecurityEngine: the periodic scan's callback.                           *)

\* setInterval fires: the callback runs to its first await, or returns at
\* once when darkWebScanning is off
SweepStarts ==
  /\ Len(sweeps) < MaxSweeps
  /\ sweeps' = Append(sweeps,
        Sweep(IF ~Truthy(userSettings, "darkWebScanning") THEN "Skipped" ELSE "Loading",
              Running # {}))
  /\ UNCHANGED <<now, failures, engineVars, chromeVars, requests, created, popupVars,
                 guardVars, pages>>

\* chrome.storage.local.get('watchedEmails') resolves: the loop starts
SweepLoaded(s) ==
  /\ s \in DOMAIN sweeps
  /\ sweeps[s].phase = "Loading"
  /\ sweeps' = [sweeps EXCEPT ![s] = SweepFrom(@, 1, userSettings)]
  /\ UNCHANGED <<now, failures, engineVars, chromeVars, requests, created, popupVars,
                 guardVars, pages>>

\* The fetch of checkDataBreach settles for the entry the sweep is at.  For
\* a status other than 200 and 404 res is undefined and res.breached throws
\* a TypeError: the callback's promise rejects.
SweepFetchSettles(s, outcome) ==
  /\ s \in DOMAIN sweeps
  /\ sweeps[s].phase = "Fetching"
  /\ LET res == checkDataBreachResult(outcome)
         pos == sweeps[s].pos
         logged == [sweeps[s] EXCEPT !.log = Append(@, outcome)]
     IN  IF res = Undefined
         THEN /\ sweeps' = [sweeps EXCEPT ![s] = [logged EXCEPT !.phase = "Aborted"]]
              /\ NoAlert(setCalls)
         ELSE IF RaisesAlert(res)
         THEN /\ \E t \in ClockValues, rnd \in RandomValues :
                   CreateAlert(BreachAlert(WatchedEmails[pos], res.count), t, rnd,
                               <<"sweep", s, pos>>, "sweep", s, pos + 1, setCalls)
              /\ sweeps' = [sweeps EXCEPT ![s] = [logged EXCEPT !.phase = "Alerting"]]
         ELSE /\ sweeps' = [sweeps EXCEPT ![s] = SweepFrom(logged, pos + 1, userSettings)]
              /\ NoAlert(setCalls)
  /\ UNCHANGED <<failures, userSettings, whitelistedSites, badgeText, notifications,
                 storage, messages, requests, popupVars, guardVars, pages>>

----------------------------------------------------------------------------
(* ContentScriptGuard: form submission.                                    *)

NoResult == [sensitiveData |-> <<>>, reputation |-> checkUrlReputation("throws"),
             recommendations |-> <<>>]

\* Array.from(formData.entries()).map(([key, value]) => `${key}: ${value}`).join(' ')
RECURSIVE DataString(_)
DataString(fields) ==
  IF fields = <<>> THEN <<>>
  ELSE FormatEntry(Head(fields).key, Head(fields).values) \o DataString(Tail(fields))

\* the forms of the page: their fields and method
SearchFields == <<[key |-> "q", values |-> <<(<<Plain>>)>>]>>
LoginFields  == <<[key |-> "password", values |-> <<(<<Plain>>)>>]>>

SubmitEvents ==
  { [tagName |-> "FORM", method |-> "POST", fields |-> LoginFields],
    [tagName |-> "FORM", method |-> "GET",  fields |-> LoginFields],
    [tagName |-> "FORM", method |-> "POST", fields |-> SearchFields],
    [tagName |-> "DIV",  method |-> "GET",  fields |-> <<>>] }

\* handleFormSubmission up to its await calls neither preventDefault nor
\* stopPropagation: the event's canceled flag when dispatch ends
CanceledAtDispatchEnd(ev) == FALSE

\* The browser's default action of a submit event on a form, taken when the
\* listeners have returned: the form is submitted unless the event was canceled.
DefaultAction(ev, canceled) ==
  IF ev.tagName = "FORM" /\ ~canceled THEN 1 ELSE 0

\* handleFormSubmission submitting the form itself once the scan is clean
ResumeByResubmitting(dispatched) == dispatched + 1

\* what handleFormSubmission does to the submission once the scan is back
\* with no findings: nothing (it neither submits nor cancels)
ResumeNoFindings(dispatched) == dispatched

Attempt(ev, phase, dispatched) ==
  [ev |-> ev, phase |-> phase, result |-> NoResult, dispatched |-> dispatched,
   defaultPrevented |-> FALSE, decision |-> "none", shown |-> FALSE, req |-> 0]

\* a submit event: handleFormSubmission to its await, then the default action
SubmitEvent(ev) ==
  /\ pageLive
  /\ Len(attempts) < MaxAttempts
  /\ attempts' = Append(attempts,
        Attempt(ev, IF ev.tagName # "FORM" THEN "Ignored" ELSE "Scanning",
                DefaultAction(ev, CanceledAtDispatchEnd(ev))))
  /\ UNCHANGED <<now, failures, engineVars, chromeVars, requests, created, popupVars,
                 modal, pageLive>>
  /\ UNCHANGED <<sweeps, pages>>

\* the engine answers SCAN_DATA; handleFormSubmission resumes
ScanResponds(a, outcome) ==
  /\ pageLive
  /\ a \in DOMAIN attempts
  /\ attempts[a].phase = "Scanning"
  /\ LET result == scanDataForLeaks(DataString(attempts[a].ev.fields), outcome)
     IN  IF result.sensitiveData # <<>>
         THEN \* showSubmissionWarning: createWarningModal removes any modal
              \* in the DOM, then the new one is appended
              /\ attempts' = [attempts EXCEPT ![a].phase = "AwaitingDecision",
                                              ![a].result = result,
                                              ![a].shown = TRUE]
              /\ modal' = a
         ELSE /\ attempts' = [attempts EXCEPT ![a].phase = "Done",
                                              ![a].result = result,
                                              ![a].dispatched = ResumeNoFindings(@)]
              /\ modal' = modal
  /\ UNCHANGED <<now, failures, engineVars, chromeVars, requests, created, popupVars,
                 pageLive>>
  /\ UNCHANGED <<sweeps, pages>>

\* chrome.runtime.sendMessage rejects (no receiving end, port closed):
\* handleFormSubmission throws at its await
ScanRejects(a) ==
  /\ pageLive
  /\ a \in DOMAIN attempts
  /\ attempts[a].phase = "Scanning"
  /\ attempts' = [attempts EXCEPT ![a].phase = "Failed"]
  /\ UNCHANGED <<now, failures, engineVars, chromeVars, requests, created, popupVars,
                 modal, pageLive>>
  /\ UNCHANGED <<sweeps, pages>>

\* callback(shouldBlock) of the modal's buttons
Buttons == {"block-btn", "continue-btn", "close-btn", "background"}

ShouldBlock(button) == button # "continue-btn"

\* resolvers kept in one list for the page and taken oldest first
CallbackOfOldest(m) ==
  Min({a \in DOMAIN attempts : attempts[a].phase = "AwaitingDecision"})

\* The callback of a modal's buttons is the resolve of the promise that
\* showSubmissionWarning made for that very attempt (a closure): the attempt
\* whose handleFormSubmission a click on modal m resumes.
CallbackOf(m) == m

\* A click on the modal: cleanup(), callback(...), and handleFormSubmission
\* resumes: event.preventDefault() when told to block.  The event's dispatch
\* ended long ago, so the flag no longer reaches the browser.
Click(button) ==
  /\ pageLive
  /\ modal # 0
  /\ attempts' = [attempts EXCEPT
        ![CallbackOf(modal)].phase = "Done",
        ![CallbackOf(modal)].decision = button,
        ![CallbackOf(modal)].defaultPrevented = ShouldBlock(button)]
  /\ modal' = 0
  /\ UNCHANGED <<now, failures, engineVars, chromeVars, requests, created, popupVars,
                 pageLive>>
  /\ UNCHANGED <<sweeps, pages>>

\* The submitted form navigates the tab: the page, its content script and
\* every pending handler are gone.
PageUnloads ==
  /\ pageLive
  /\ \E a \in DOMAIN attempts : attempts[a].dispatched > 0
  /\ pageLive' = FALSE
  /\ modal' = 0
  /\ UNCHANGED <<now, failures, engineVars, chromeVars, requests, created, popupVars,
                 attempts>>
  /\ UNCHANGED <<sweeps, pages>>

\* the request of a submitted form, as chrome.webRequest reports it
SubmissionDetails(ev) ==
  Details("shop.example",
          IF ev.method = "POST" THEN [formData |-> ev.fields, raw |-> <<>>] ELSE NoBody,
          <<>>)

\* onBeforeRequest for the request of attempt a
AnalyzeSubmission(a) ==
  /\ a \in DOMAIN attempts
  /\ attempts[a].dispatched > 0
  /\ attempts[a].req = 0
  /\ Len(requests) < MaxRequests
  /\ AnalyzeRequest(SubmissionDetails(attempts[a].ev))
  /\ attempts' = [attempts EXCEPT ![a].req = Len(requests')]
  /\ UNCHANGED <<modal, pageLive>>
  /\ UNCHANGED <<sweeps, pages>>

----------------------------------------------------------------------------
(* ContentScriptGuard: the check of the page's own URL.                    *)

\* window.location.href of the pages visited, as the text handed to the scan
PageUrls == {[host |-> "shop.example", href |-> <<Plain>>],
             [host |-> "mail.example", href |-> <<Plain, Mail>>],
             [host |-> "pay.example",  href |-> <<Plain, Card>>]}

\* the condition of checkCurrentPageSecurity:
\* result && result.urlReputation && result.urlReputation.malicious
\* (a property the object does not have reads as undefined)
PageVerdict(result) ==
  /\ result # Undefined
  /\ "urlReputation" \in DOMAIN result
  /\ result.urlReputation.malicious

InPageAlert(type, message, severity) ==
  [type |-> type, message |-> message, severity |-> severity]

\* A page is loaded: the content script is constructed, setupMonitoring runs
\* and calls checkCurrentPageSecurity, which sends SCAN_DATA and awaits.
CheckCurrentPageSecurity(url) ==
  /\ Len(pages) < MaxPages
  /\ pages' = Append(pages, [url |-> url, phase |-> "Scanning", result |-> Undefined,
                             inPageAlerts |-> <<>>])
  /\ UNCHANGED <<now, failures, engineVars, chromeVars, requests, created, popupVars,
                 guardVars, sweeps>>

\* The engine answers with scanDataForLeaks(url, sender.tab.url);
\* checkCurrentPageSecurity resumes.  inPageAlerts: the showInPageAlert calls.
PageScanResponds(p, outcome) ==
  /\ p \in DOMAIN pages
  /\ pages[p].phase = "Scanning"
  /\ LET result == scanDataForLeaks(pages[p].url.href, outcome)
     IN  pages' = [pages EXCEPT
            ![p].phase = "Done",
            ![p].result = result,
            ![p].inPageAlerts =
               IF PageVerdict(result)
               THEN Append(@, InPageAlert("malicious_site",
                                          "Warning: This site may be malicious", "critical"))
               ELSE @]
  /\ UNCHANGED <<now, failures, engineVars, chromeVars, requests, created, popupVars,
                 guardVars, sweeps>>

\* chrome.runtime.sendMessage rejects: checkCurrentPageSecurity throws at its await
PageScanRejects(p) ==
  /\ p \in DOMAIN pages
  /\ pages[p].phase = "Scanning"
  /\ pages' = [pages EXCEPT ![p].phase = "Failed"]
  /\ UNCHANGED <<now, failures, engineVars, chromeVars, requests, created, popupVars,
                 guardVars, sweeps>>

----------------------------------------------------------------------------

\* The state once init() has run.  The 'alerts' record is whatever an
\* earlier run of the extension left; init() does not read it.
OldAlert == [Alert("data_transmission", "high", [host |-> "shop.example"], <<>>, "")
               EXCEPT !.id = Num(-2), !.timestamp = -1]

StoredAlerts == {<<>>, <<OldAlert>>}

Init ==
  /\ now = 0
  /\ failures = 0
  /\ userSettings \in StoredSettings
  /\ whitelistedSites \in StoredWhitelists
  /\ alertQueue = <<>>
  /\ badgeText = EmptyString
  /\ notifications = {}
  /\ storage \in {[alerts |-> a, settings |-> userSettings] : a \in StoredAlerts}
  /\ setCalls = <<>>
  /\ messages = <<>>
  /\ requests = <<>>
  /\ created = <<>>
  /\ popupAlerts = <<>>
  /\ popupOps = 0
  /\ popupSettings = EmptyObject
  /\ attempts = <<>>
  /\ modal = 0
  /\ pageLive = TRUE
  /\ sweeps = <<>>
  /\ pages = <<>>

\* the engine alone: interception, alert creation, storage
InitFresh == Init /\ storage.alerts = <<>>

NextIntercept ==
  \/ \E d \in RequestDetails : OnBeforeRequest(d)
  \/ \E r \in DOMAIN requests : AnalyzeHeaders(r)
  \/ StorageSetResolves
  \/ StorageSetRejects

SpecIntercept == InitFresh /\ [][NextIntercept]_vars

\* the engine with the popup and other senders of CLEAR_ALERT
AlertingDetails == {Details("shop.example", LoginForm, OneLeak)}

NextDismiss ==
  \/ \E d \in AlertingDetails : OnBeforeRequest(d)
  \/ \E r \in DOMAIN requests : AnalyzeHeaders(r)
  \/ StorageSetResolves
  \/ StorageSetRejects
  \/ OnClearAlert
  \/ \E id \in IdValues : SendClearAlert(id)
  \/ LoadData
  \/ \E i \in DOMAIN popupAlerts : DismissAlert(i)

\* the popup is opened on an engine whose real-time scanning is on
InitDismiss == Init /\ userSettings.realTimeScanning

SpecDismiss == InitDismiss /\ [][NextDismiss]_vars

\* the alert store: the engine's queue, the persisted record and the popup's
\* dismiss and clear-all; the engine may have been started on a record that
\* an earlier run left (StoredAlerts)
NextStore ==
  \/ \E d \in AlertingDetails : OnBeforeRequest(d)
  \/ \E r \in DOMAIN requests : AnalyzeHeaders(r)
  \/ StorageSetResolves
  \/ OnClearAlert
  \/ OnUnknownMessage
  \/ LoadData
  \/ \E i \in DOMAIN popupAlerts : DismissAlert(i)
  \/ ClearAlerts

SpecStore == InitDismiss /\ [][NextStore]_vars

\* settings updates from the popup and breach checks
NextSettings ==
  \/ LoadData
  \/ \E key \in SettingKeys : UpdateSetting(key)
  \/ StorageSetResolves
  \/ StorageSetRejects
  \/ OnUpdateSettings
  \/ CheckBreaches
  \/ OnCheckBreach
  \/ \E m \in DOMAIN messages, outcome \in BreachOutcomes : BreachFetchSettles(m, outcome)

SpecSettings == InitFresh /\ [][NextSettings]_vars

\* scan requests to the engine
NextScan ==
  \/ \E data \in ScanTexts : OnScanData(data)
  \/ \E m \in DOMAIN messages, outcome \in FetchOutcomes : ScanFetchSettles(m, outcome)

InitScan == InitFresh /\ userSettings.realTimeScanning

SpecScan == InitScan /\ [][NextScan]_vars

\* the engine's outbound calls: breach checks and scans in flight together
OutboundTexts == {<<>>, <<Mail>>}

NextOutbound ==
  \/ LoadData
  \/ CheckBreaches
  \/ OnCheckBreach
  \/ \E m \in DOMAIN messages, outcome \in BreachOutcomes : BreachFetchSettles(m, outcome)
  \/ \E data \in OutboundTexts : OnScanData(data)
  \/ \E m \in DOMAIN messages, outcome \in FetchOutcomes : ScanFetchSettles(m, outcome)

\* The event loop runs the handler of every delivered message; nothing makes
\* the remote services answer.
SpecOutbound == InitScan /\ [][NextOutbound]_vars /\ WF_vars(OnCheckBreach)

\* the content script's submission guard, the scan and the submitted request
NextGuard ==
  \/ \E ev \in SubmitEvents : SubmitEvent(ev)
  \/ \E a \in 1 .. MaxAttempts, outcome \in FetchOutcomes : ScanResponds(a, outcome)
  \/ \E a \in 1 .. MaxAttempts : ScanRejects(a)
  \/ \E button \in Buttons : Click(button)
  \/ PageUnloads
  \/ \E a \in 1 .. MaxAttempts : AnalyzeSubmission(a)
  \/ StorageSetResolves

SpecGuard == InitFresh /\ [][NextGuard]_vars

\* the same, with a user who answers a warning that stays on the screen
SpecGuardLive == SpecGuard /\ WF_vars(\E button \in Buttons : Click(button))

\* the periodic scan, with storage writes that may fail
NextSweep ==
  \/ SweepStarts
  \/ \E s \in 1 .. MaxSweeps : SweepLoaded(s)
  \/ \E s \in 1 .. MaxSweeps, outcome \in SweepOutcomes : SweepFetchSettles(s, outcome)
  \/ StorageSetResolves
  \/ StorageSetRejects

SpecSweep == InitScan /\ [][NextSweep]_vars

\* the periodic scan with a service that answers, and dismissals by id
ServiceAnswers == {"200", "404"}

NextOrder ==
  \/ SweepStarts
  \/ \E s \in 1 .. MaxSweeps : SweepLoaded(s)
  \/ \E s \in 1 .. MaxSweeps, outcome \in ServiceAnswers : SweepFetchSettles(s, outcome)
  \/ StorageSetResolves
  \/ \E id \in IdValues : SendClearAlert(id)
  \/ OnClearAlert

SpecOrder == InitScan /\ [][NextOrder]_vars

\* the periodic scan while the popup's dark-web toggle is clicked
SwitchKeys == {"darkWebScanning"}

\* the service reports a breach for every address asked about
BreachReported == {"200"}

NextSwitch ==
  \/ SweepStarts
  \/ \E s \in 1 .. MaxSweeps : SweepLoaded(s)
  \/ \E s \in 1 .. MaxSweeps, outcome \in BreachReported : SweepFetchSettles(s, outcome)
  \/ StorageSetResolves
  \/ LoadData
  \/ \E key \in SwitchKeys : UpdateSetting(key)
  \/ OnUpdateSettings

SpecSwitch == InitScan /\ [][NextSwitch]_vars

\* pages being loaded and their reputation check
NextPage ==
  \/ \E url \in PageUrls : CheckCurrentPageSecurity(url)
  \/ \E p \in 1 .. MaxPages, outcome \in FetchOutcomes : PageScanResponds(p, outcome)
  \/ \E p \in 1 .. MaxPages : PageScanRejects(p)

SpecPage == InitScan /\ [][NextPage]_vars

Next ==
  \/ NextIntercept
  \/ NextDismiss
  \/ NextStore
  \/ NextSettings
  \/ NextScan
  \/ NextOutbound
  \/ NextGuard
  \/ NextSweep
  \/ NextSwitch
  \/ NextOrder
  \/ NextPage

Spec == Init /\ [][Next]_vars

----------------------------------------------------------------------------
(* Properties of interception and alert creation (SpecIntercept).          *)

Gated(details) ==
  \/ ~userSettings.realTimeScanning
  \/ Hostname(details.url) \in whitelistedSites

CreatedFor(origin) == {i \in DOMAIN created : created[i].origin = origin}

Quiescent == setCalls = <<>>

\* C1: N createAlert calls with no dismissal in between give N pairwise
\* distinct ids, and once every call has completed (none of the writes having
\* been rejected) the persisted 'alerts' record has length N.
C1_DistinctIdsPersistedLength ==
  /\ \A i, j \in DOMAIN created : i # j => created[i].id # created[j].id
  /\ (Quiescent /\ failures = 0) => Len(storage.alerts) = Len(created)

\* C6: analyzeRequest of a request whose hostname is whitelisted, or seen
\* while realTimeScanning is off, creates no alert and leaves the queue, the
\* persisted alerts, the pending writes, the notifications and the badge as
\* they were, whatever the body holds.
C6_GatedRequestNoAlert ==
  [][ /\ (/\ Len(requests') = Len(requests) + 1
          /\ Gated(requests'[Len(requests')].details))
         => /\ alertQueue' = alertQueue
            /\ storage' = storage
            /\ setCalls' = setCalls
            /\ badgeText' = badgeText
            /\ notifications' = notifications
            /\ created' = created
      /\ \A r \in DOMAIN requests' :
            Gated(requests'[r].details) => CreatedFor(<<"body", r, 0>>)' = {}
    ]_vars

\* a whitelisted request with a card number in its body went through
\* analyzeRequest while scanning was on, and the queue is still empty
C6_Witness ==
  \E r \in DOMAIN requests :
    /\ userSettings.realTimeScanning
    /\ Hostname(requests[r].details.url) \in whitelistedSites
    /\ detectSensitiveData(extractFormData(requests[r].details.requestBody)) # <<>>
    /\ requests[r].body = "Whitelisted"
    /\ alertQueue = <<>>

\* C7: analyzeHeaders of a request whose hostname is whitelisted, or seen
\* while realTimeScanning is off, creates no header_leak alert.
C7_GatedHeadersNoAlert ==
  \A r \in DOMAIN requests :
    Gated(requests[r].details) =>
      \A i \in DOMAIN requests[r].details.requestHeaders :
        CreatedFor(<<"header", r, i>>) = {}

HeaderFindings(h) ==
  IF IsSuspicious(h.name) /\ h.hasValue THEN detectSensitiveData(h.value) ELSE <<>>

Finished(r) ==
  /\ requests[r].body # "Awaiting"
  /\ requests[r].headers \in {"Done", "Error"}

\* C8: for a request that is neither whitelisted nor seen with scanning off,
\* once both handlers have finished: a body with findings has produced
\* exactly one data_transmission alert, every suspicious header whose value
\* has findings exactly one header_leak alert, and the others none.
C8_OneAlertPerSignal ==
  \A r \in DOMAIN requests :
    (Finished(r) /\ ~Gated(requests[r].details)) =>
      LET d == requests[r].details
      IN  /\ Cardinality(CreatedFor(<<"body", r, 0>>)) =
               (IF d.hasBody /\ detectSensitiveData(extractFormData(d.requestBody)) # <<>>
                THEN 1 ELSE 0)
          /\ \A i \in DOMAIN d.requestHeaders :
               Cardinality(CreatedFor(<<"header", r, i>>)) =
                 (IF HeaderFindings(d.requestHeaders[i]) # <<>> THEN 1 ELSE 0)

\* C18: every listener run of every intercepted request returns no cancel,
\* redirect or modify decision, and chrome.webRequest lets the request
\* proceed at each of its events, whatever the handlers found, awaited or threw.
C18_InterceptionNeverBlocks ==
  \A r \in DOMAIN requests :
    \A e \in DOMAIN requests[r].returned :
      /\ requests[r].returned[e] \notin {"cancel", "redirect", "modify"}
      /\ WebRequestDecision(WebRequestEvents[e], requests[r].returned[e]) = "proceed"

\* a request with findings in its body and in a header passed both events:
\* the body's alert was created, the header's alert creation threw
C18_Witness ==
  \E r \in DOMAIN requests :
    /\ Len(requests[r].returned) = 2
    /\ requests[r].body = "AlertCreated"
    /\ requests[r].headers = "Error"
    /\ ~Gated(requests[r].details)

----------------------------------------------------------------------------
(* Properties of dismissal (SpecDismiss).                                  *)

\* the alert an id names, whichever way the id is written
SameId(a, b) == a.v = b.v

Present(id, alerts) == \E i \in DOMAIN alerts : SameId(alerts[i].id, id)

Without(alerts, id) == SelectSeq(alerts, LAMBDA a : ~SameId(a.id, id))

BadgeOf(n) == IF n = 0 THEN {EmptyString, Str(0)} ELSE {Str(n)}

\* message m goes from one status to another in this step
Turns(m, from, to) ==
  /\ m \in DOMAIN messages
  /\ messages[m].status = from
  /\ messages'[m].status = to

\* C9: the popup's dismiss of an alert that is present: when the engine
\* handles the CLEAR_ALERT the alert leaves the queue and the others stay,
\* and when the engine's write completes the persisted record holds no alert
\* of that id and the badge shows the new queue length.
C9_DismissRemovesAlert ==
  [][ \A m \in DOMAIN messages :
        LET id == messages[m].alertId
        IN  /\ (Turns(m, "sent", "pending") /\ Present(id, alertQueue))
                 => alertQueue' = Without(alertQueue, id)
            /\ Turns(m, "pending", "success")
                 => /\ ~Present(id, storage'.alerts)
                    /\ badgeText' \in BadgeOf(Len(alertQueue'))
    ]_vars

\* C10: clearAlert of an id that no alert of the queue has leaves the queue
\* as it is, and the dismissal is answered with success: nothing but a
\* rejected storage write keeps the answer back.
C10_AbsentDismissNoOp ==
  [][ \A m \in DOMAIN messages :
        /\ (Turns(m, "sent", "pending") /\ ~Present(messages[m].alertId, alertQueue))
              => alertQueue' = alertQueue
        /\ (messages[m].status = "pending" /\ messages'[m].status # "pending"
            /\ failures' = failures)
              => messages'[m].status = "success"
    ]_vars

\* two dismissals of the same created alert were both answered: the second
\* found the id gone; another alert is still queued
C10_Witness ==
  \E m1, m2 \in DOMAIN messages :
    /\ m1 < m2
    /\ messages[m1].alertId = messages[m2].alertId
    /\ messages[m1].status = "success"
    /\ messages[m2].status = "success"
    /\ \E i \in DOMAIN created : created[i].id = messages[m1].alertId
    /\ alertQueue # <<>>

----------------------------------------------------------------------------
(* Properties of the alert store (SpecStore).                              *)

\* message m, of the given type, is handled by the engine in this step
Handled(m, type) ==
  /\ m \in DOMAIN messages
  /\ messages[m].type = type
  /\ messages[m].status = "sent"
  /\ messages'[m].status # "sent"

\* C11: once the engine has the popup's CLEAR_ALL_ALERTS, no alert having
\* been created since the popup's write (the persisted record is still empty
\* and no write is pending), list() (GET_ALERTS) returns the empty sequence,
\* the persisted 'alerts' record is empty and the badge is empty or zero; an
\* alert created when list() is empty gives a queue of length 1.
C11_ClearAllEmpties ==
  [][ /\ \A m \in DOMAIN messages :
            (Handled(m, "CLEAR_ALL_ALERTS") /\ Quiescent /\ storage.alerts = <<>>)
              => /\ GetAlerts(alertQueue') = <<>>
                 /\ badgeText' \in BadgeOf(0)
                 /\ storage'.alerts = <<>>
      /\ (GetAlerts(alertQueue) = <<>> /\ Len(created') = Len(created) + 1)
            => Len(GetAlerts(alertQueue')) = 1
    ]_vars

\* the storage write that settles in this step is of continuation fn
Settles(fn) ==
  /\ setCalls # <<>>
  /\ Head(setCalls).k.fn = fn
  /\ setCalls' # setCalls
  /\ storage' = [storage EXCEPT ![Head(setCalls).key] = Head(setCalls).value]

\* C12: an alert leaves the alert list only when the engine handles a
\* CLEAR_ALERT naming its id or a CLEAR_ALL_ALERTS, and leaves the persisted
\* 'alerts' record only by the write of a dismissal of its id or of a
\* clear-all; no other step removes it.
C12_AlertStaysUntilDismissed ==
  [][ /\ \A id \in Ids(alertQueue) \ Ids(alertQueue') :
            \E m \in DOMAIN messages :
              \/ Handled(m, "CLEAR_ALL_ALERTS")
              \/ Handled(m, "CLEAR_ALERT") /\ SameId(messages[m].alertId, id)
      /\ \A id \in Ids(storage.alerts) \ Ids(storage'.alerts) :
            \/ Settles("clearAlerts")
            \/ (Settles("dismissAlert") \/ Settles("clearAlert"))
                  /\ SameId(Head(setCalls).k.id, id)
    ]_vars

\* nothing is in flight: no storage write and no message to the engine
QuiescentStore ==
  /\ setCalls = <<>>
  /\ \A m \in DOMAIN messages : messages[m].status \notin {"sent", "pending"}

\* C20: in every quiescent state after the engine has created an alert, the
\* persisted 'alerts' record equals the engine's alert queue.
C20_PersistedEqualsQueue ==
  (QuiescentStore /\ created # <<>>) => storage.alerts = alertQueue

----------------------------------------------------------------------------
(* Properties of settings updates and breach checks (SpecSettings).        *)

DarkWebScanning(settings) == Truthy(settings, "darkWebScanning")

Fetched == {m \in DOMAIN messages : messages[m].type = "CHECK_BREACH" /\ messages[m].fetched}

\* C13: a settings update that sets darkWebScanning to false turns the
\* engine's setting off; every breach check handled while it is off is
\* answered { checked: false } at once, with no outbound call; and the
\* setting goes back on only by a settings update that enables it.
C13_DisabledBreachCheckNotChecked ==
  [][ \A m \in DOMAIN messages :
        /\ (Handled(m, "UPDATE_SETTINGS")
              /\ "darkWebScanning" \in DOMAIN messages[m].settings
              /\ ~DarkWebScanning(messages[m].settings))
             => ~DarkWebScanning(userSettings')
        /\ (Handled(m, "CHECK_BREACH") /\ ~DarkWebScanning(userSettings))
             => /\ messages'[m].status = "answered"
                /\ messages'[m].response = NotChecked
                /\ Fetched' = Fetched
        /\ (~DarkWebScanning(userSettings) /\ DarkWebScanning(userSettings'))
             => \E u \in DOMAIN messages :
                  Handled(u, "UPDATE_SETTINGS") /\ DarkWebScanning(messages[u].settings)
    ]_vars

\* darkWebScanning was switched off by a settings update, and two breach
\* checks sent afterwards were answered 'not checked' without a fetch
C13_Witness ==
  \E u, m1, m2 \in DOMAIN messages :
    /\ u < m1 /\ m1 < m2
    /\ messages[u].type = "UPDATE_SETTINGS"
    /\ ~DarkWebScanning(messages[u].settings)
    /\ messages[u].status = "success"
    /\ \A m \in {m1, m2} :
          /\ messages[m].type = "CHECK_BREACH"
          /\ messages[m].status = "answered"
          /\ messages[m].response = NotChecked
          /\ ~messages[m].fetched
    /\ ~DarkWebScanning(userSettings)

HasField(object, key) == key \in DOMAIN object

\* C15: a breach check that made its outbound call is answered with a
\* defined result: a breached / not breached verdict when the service said
\* found (200) or not found (404), an error marker for every other outcome.
C15_BreachCheckDefinedResult ==
  \A m \in DOMAIN messages :
    (messages[m].type = "CHECK_BREACH" /\ messages[m].fetched
       /\ messages[m].status = "answered")
      => LET response == messages[m].response
         IN  /\ response # Undefined
             /\ IF messages[m].outcome \in {"200", "404"}
                THEN /\ HasField(response, "breached")
                     /\ response.breached = (messages[m].outcome = "200")
                ELSE HasField(response, "error") /\ response.error

\* C17: when the engine's write of the settings record is rejected, the
\* UPDATE_SETTINGS message that caused it is answered with a failure.
C17_SettingsWriteFailureReported ==
  [][ \A m \in DOMAIN messages :
        (/\ messages[m].type = "UPDATE_SETTINGS"
         /\ messages[m].status = "pending"
         /\ setCalls # <<>>
         /\ Head(setCalls).k.fn = "updateSettings"
         /\ Head(setCalls).k.req = m
         /\ failures' = failures + 1)
          => messages'[m].status = "failure"
    ]_vars

----------------------------------------------------------------------------
(* Properties of scan requests (SpecScan).                                 *)

Answered == {m \in Scans : messages[m].status = "answered"}

\* the detectors that match somewhere in the text
Matching(text) == {i \in sensitivePatterns : \E j \in DOMAIN text : i \in text[j].m}

\* the fixed order of the detectors
DetectorOrder == <<"credit_card", "ssn", "email", "ip_address", "password", "api_key">>

\* the findings name exactly the matching detectors, once each, in order,
\* each with its first match
FindingsOf(findings, text) ==
  /\ Len(findings) = Cardinality(Matching(text))
  /\ \A k \in DOMAIN findings :
        /\ findings[k].pattern \in Matching(text)
        /\ findings[k].type = DetectorOrder[findings[k].pattern]
        /\ findings[k].value =
              text[Min({j \in DOMAIN text : findings[k].pattern \in text[j].m})].s
  /\ \A k, l \in DOMAIN findings : k < l => findings[k].pattern < findings[l].pattern

IsMalicious(reputation) == reputation.hasMalicious /\ reputation.malicious

\* C14: a scan is answered whatever the reputation call does; after a
\* transport failure or a non-2xx response the verdict is not malicious and
\* carries an error marker, and the scan still returns its findings.
C14_ReputationFailureMarked ==
  \A m \in Answered :
    /\ messages[m].response # Undefined
    /\ messages[m].outcome \in {"throws", "non2xx"}
         => /\ ~IsMalicious(messages[m].response.reputation)
            /\ messages[m].response.reputation.error
            /\ FindingsOf(messages[m].response.sensitiveData, messages[m].data)

\* C16: the recommendations of a scan result hold one line when there are
\* findings, one line when the verdict is malicious, and one generic line
\* when neither holds: they are never empty.
C16_RecommendationsNeverEmpty ==
  \A m \in Answered :
    LET result == messages[m].response
        lines == (IF result.sensitiveData # <<>> THEN 1 ELSE 0)
                 + (IF IsMalicious(result.reputation) THEN 1 ELSE 0)
    IN  /\ Len(result.recommendations) = (IF lines = 0 THEN 1 ELSE lines)
        /\ result.recommendations # <<>>

\* C19: the findings of a scanned text are exactly one Finding for each
\* detector that matches it and none for the others, in the fixed detector
\* order, each with the first match: at most six, none for a text no detector
\* matches, and the same for two scans of the same text.
C19_OneFindingPerDetector ==
  /\ \A m \in Answered :
        /\ FindingsOf(messages[m].response.sensitiveData, messages[m].data)
        /\ Len(messages[m].response.sensitiveData) <= NumPatterns
        /\ Matching(messages[m].data) = {} => messages[m].response.sensitiveData = <<>>
  /\ \A m1, m2 \in Answered :
        messages[m1].data = messages[m2].data
          => messages[m1].response.sensitiveData = messages[m2].response.sensitiveData

\* a text in which one detector matches twice was scanned two times, with
\* different outcomes of the reputation call, and gave one finding each time
C19_Witness ==
  \E m1, m2 \in Answered :
    /\ m1 # m2
    /\ messages[m1].data = messages[m2].data
    /\ messages[m1].outcome # messages[m2].outcome
    /\ Len(messages[m1].data) = 2
    /\ Len(messages[m1].response.sensitiveData) = 1

\* a text that all six detectors match and a text that none matches were scanned
C19_WitnessAllAndNone ==
  \E m1, m2 \in Answered :
    /\ Len(messages[m1].response.sensitiveData) = NumPatterns
    /\ messages[m2].data # <<>>
    /\ messages[m2].response.sensitiveData = <<>>

----------------------------------------------------------------------------
(* Properties of the submission guard (SpecGuard).                         *)

Forms == {a \in DOMAIN attempts : attempts[a].ev.tagName = "FORM"}

HasFindings(a) == attempts[a].result.sensitiveData # <<>>

\* C2: a submission whose scan had findings and whose warning was answered
\* with 'Block Submission' is never dispatched to the network.
C2_BlockedNeverDispatched ==
  \A a \in Forms :
    (HasFindings(a) /\ attempts[a].decision = "block-btn") => attempts[a].dispatched = 0

\* C3: fail closed: a submission whose scan had findings, or whose scan
\* failed, has reached the network only if 'Continue Anyway' was clicked.
C3_FailClosed ==
  \A a \in Forms :
    ((HasFindings(a) \/ attempts[a].phase = "Failed") /\ attempts[a].dispatched > 0)
      => attempts[a].decision = "continue-btn"

\* C4: a form submission whose scan came back with no findings got no
\* warning and no decision, and was dispatched exactly once.
C4_CleanDispatchedOnce ==
  \A a \in Forms :
    (attempts[a].phase = "Done" /\ ~HasFindings(a))
      => /\ attempts[a].dispatched = 1
         /\ ~attempts[a].shown
         /\ attempts[a].decision = "none"

\* the submit handler ran twice, both scans came back clean
C4_Witness ==
  \E a, b \in Forms :
    /\ a # b
    /\ attempts[a].phase = "Done" /\ ~HasFindings(a)
    /\ attempts[b].phase = "Done" /\ ~HasFindings(b)

\* the alerts recorded for attempt a: by its scan, or by the interception of
\* the request it sent
AlertsOf(a) ==
  CreatedFor(<<"scan", a, 0>>) \cup
  (IF attempts[a].req = 0 THEN {} ELSE CreatedFor(<<"body", attempts[a].req, 0>>))

\* C5: with scanning on, a form submission scanned with findings has exactly
\* one alert in the alert store, once its scan is back and its request has
\* been analysed.
C5_OneAlertPerScannedSubmission ==
  \A a \in Forms :
    (/\ userSettings.realTimeScanning
     /\ HasFindings(a)
     /\ attempts[a].req # 0
     /\ requests[attempts[a].req].body # "Awaiting")
      => Cardinality(AlertsOf(a)) = 1

\* the warning of attempt a is awaiting a decision
Pending(a) == a \in DOMAIN attempts /\ attempts[a].phase = "AwaitingDecision"

\* the warning of attempt a was removed from the page by a newer warning
Superseded(a) == Pending(a) /\ modal # a

\* what has been decided about an attempt
Outcome(a) ==
  <<a.phase, a.decision, a.defaultPrevented, a.dispatched>>

\* C21: a decision, once given, is never given again, and every warning
\* that awaits a decision is decided (or the page is gone), also after the
\* warning was closed or a second warning was opened.
C21_PendingResolvedOnce ==
  /\ [][ \A a \in DOMAIN attempts :
            attempts[a].decision # "none" => attempts'[a].decision = attempts[a].decision
       ]_vars
  /\ \A a \in 1 .. MaxAttempts : Pending(a) ~> (~Pending(a) \/ ~pageLive)

\* C22: once an attempt's warning has been superseded nothing changes that
\* attempt's outcome any more, and a click on a warning decides the attempt
\* that warning was shown for and no other.
C22_SupersededInvalidated ==
  [][ /\ \A a \in DOMAIN attempts :
            Superseded(a) => Outcome(attempts'[a]) = Outcome(attempts[a])
      /\ (modal # 0 /\ modal' = 0 /\ pageLive')
            => /\ attempts'[modal].decision # "none"
               /\ \A a \in DOMAIN attempts \ {modal} :
                     Outcome(attempts'[a]) = Outcome(attempts[a])
    ]_vars

\* the first warning was superseded by the second, and the second was
\* answered: the first attempt has no decision
C22_Witness ==
  /\ Len(attempts) = 2
  /\ Superseded(1)
  /\ attempts[1].decision = "none"
  /\ attempts[2].shown
  /\ attempts[2].decision = "continue-btn"

----------------------------------------------------------------------------
(* Properties of the badge (SpecDismiss).                                  *)

\* C24: in every quiescent state the badge text denotes the length of the
\* engine's alert queue, empty or zero when the queue is empty.
C24_BadgeProjectsQueueLength ==
  QuiescentStore => badgeText \in BadgeOf(Len(alertQueue))

----------------------------------------------------------------------------
(* Properties of outbound calls (SpecOutbound).                            *)

MaxOutbound == MaxScans + MaxChecks

\* C26: every scan request and every breach check that the engine has taken
\* up is answered in the end, whether or not the remote service responds.
StatusOf(m) == IF m \in DOMAIN messages THEN messages[m].status ELSE "unsent"

C26_OutboundCallsReturn ==
  \A m \in 1 .. MaxOutbound :
    (StatusOf(m) \in {"sent", "pending"}) ~> (StatusOf(m) = "answered")

----------------------------------------------------------------------------
(* Properties of the page check (SpecPage).                                *)

\* C27: when the scan of the page's URL has come back with a malicious
\* verdict, a critical malicious_site alert has been shown in the page.
C27_MaliciousPageAlert ==
  \A p \in DOMAIN pages :
    (pages[p].phase = "Done" /\ IsMalicious(pages[p].result.reputation))
      => \E i \in DOMAIN pages[p].inPageAlerts :
            /\ pages[p].inPageAlerts[i].type = "malicious_site"
            /\ pages[p].inPageAlerts[i].severity = "critical"

----------------------------------------------------------------------------
(* Properties of the periodic scan (SpecSweep).                            *)

AlertsFor(s, e) == CreatedFor(<<"sweep", s, e>>)

\* C25: when a sweep starts while an earlier one is still running, an entry
\* of the watch list for which the earlier sweep has raised an alert gets no
\* second alert from the later sweep (the service reports the same breaches
\* to both).
C25_OneAlertPerSnapshot ==
  \A e \in DOMAIN WatchedEmails : \A s1, s2 \in DOMAIN sweeps :
    (s1 < s2 /\ sweeps[s2].overlapped /\ AlertsFor(s1, e) # {})
      => AlertsFor(s2, e) = {}

Settled(s) == sweeps[s].phase \in {"Done", "Aborted"}

\* C28: a sweep that started with darkWebScanning on and has ended has gone
\* through every entry of the watch list, in order, and has raised exactly
\* one alert for each entry the service reported breached with a positive
\* count and none for the others, whatever the service answered for the
\* entries before.
C28_SweepChecksEveryEntry ==
  \A s \in DOMAIN sweeps :
    Settled(s)
      => /\ Len(sweeps[s].log) = Len(WatchedEmails)
         /\ \A e \in DOMAIN WatchedEmails :
               Cardinality(AlertsFor(s, e)) = IF sweeps[s].log[e] = "200" THEN 1 ELSE 0

----------------------------------------------------------------------------
(* Properties of the order of alerts (SpecOrder).                          *)

DistinctIds == \A i, j \in DOMAIN created : i # j => created[i].id # created[j].id

\* the ids of the createAlert calls that have not completed
PendingCreates(calls) ==
  {calls[i].k.id : i \in {j \in DOMAIN calls : calls[j].k.fn = "createAlert"}}

\* the ids of the alerts that come after the alert `id` in the list
After(alerts, id) ==
  {alerts[j].id : j \in {l \in DOMAIN alerts : \E h \in DOMAIN alerts :
                                                  h < l /\ alerts[h].id = id}}

\* alerts that are in both lists are in the same order in both
SameOrder(old, new) ==
  \A i, j \in DOMAIN old : \A k, l \in DOMAIN new :
    (i < j /\ old[i].id = new[k].id /\ old[j].id = new[l].id) => k < l

\* C23: at the step that completes a createAlert call, the alerts that come
\* after its alert in the engine's list (what GET_ALERTS answers) and in the
\* persisted record are those of calls not yet completed, so every alert of
\* a call completed earlier precedes it, whichever trigger started first;
\* no step changes the relative order of alerts that stay in the list or in
\* the record, and a dismissal removes none but the alert it names.
C23_NewestLastInCompletionOrder ==
  [][ DistinctIds' =>
        /\ (StorageSetResolves /\ Head(setCalls).k.fn = "createAlert") =>
              /\ After(GetAlerts(alertQueue'), Head(setCalls).k.id) \subseteq PendingCreates(setCalls')
              /\ After(storage'.alerts, Head(setCalls).k.id) \subseteq PendingCreates(setCalls')
        /\ SameOrder(GetAlerts(alertQueue), GetAlerts(alertQueue'))
        /\ SameOrder(storage.alerts, storage'.alerts)
        /\ OnClearAlert =>
              Ids(alertQueue) \ Ids(alertQueue') \subseteq {messages[Min(Unhandled)].alertId} ]_vars

\* Three alerts with distinct ids, the first raised by the sweep that started
\* second; all three calls have completed and one alert has been dismissed.
C23_Witness ==
  /\ Len(created) = 3
  /\ DistinctIds
  /\ created[1].origin[2] = 2
  /\ \E i \in 2 .. 3 : created[i].origin[2] = 1
  /\ Quiescent
  /\ Len(alertQueue) = 2
  /\ storage.alerts = alertQueue
  /\ \A m \in DOMAIN messages : messages[m].status = "success"

----------------------------------------------------------------------------
(* Properties of the periodic scan under settings changes (SpecSwitch).    *)

\* the check of entry e has begun: it is logged, or its call is in flight
Begun(sweep, e) ==
  \/ Len(sweep.log) >= e
  \/ sweep.phase = "Fetching" /\ sweep.pos = e

NotStarted == Sweep("NotStarted", FALSE)

SweepBefore(s) == IF s \in DOMAIN sweeps THEN sweeps[s] ELSE NotStarted

CallsInFlight(all) == {s \in DOMAIN all : all[s].phase = "Fetching"}

\* C29 as stated: in no step taken while darkWebScanning is off does a sweep
\* start an outbound call or create an alert.
C29_OffMeansNoCallNoAlert ==
  [][ ~DarkWebScanning(userSettings) =>
        /\ created' = created
        /\ CallsInFlight(sweeps') \subseteq CallsInFlight(sweeps) ]_vars

PassedOverHaveNoAlert ==
  \A s \in DOMAIN sweeps :
    /\ sweeps[s].phase = "Skipped" => sweeps[s].log = <<>>
    /\ \A e \in DOMAIN WatchedEmails :
          (sweeps[s].phase = "Skipped"
             \/ (Len(sweeps[s].log) >= e /\ sweeps[s].log[e] = "NotChecked"))
            => AlertsFor(s, e) = {}

\* C29, amended: a sweep that starts while darkWebScanning is off does
\* nothing; an entry whose check begins while darkWebScanning is off is
\* passed over with no outbound call; and no entry passed over has an alert.
C29_EntriesBegunWhileOffAreSkipped ==
  [][ /\ ~DarkWebScanning(userSettings) =>
           \A s \in DOMAIN sweeps' :
             /\ s \notin DOMAIN sweeps => sweeps'[s].phase = "Skipped"
             /\ \A e \in DOMAIN WatchedEmails :
                   (~Begun(SweepBefore(s), e) /\ Begun(sweeps'[s], e))
                     => /\ Len(sweeps'[s].log) >= e
                        /\ sweeps'[s].log[e] = "NotChecked"
      /\ PassedOverHaveNoAlert' ]_vars

\* The setting was switched off while a sweep was at its first entry: that
\* entry was answered and the second was passed over; a later sweep started
\* while it was off.
C29_Witness ==
  /\ ~DarkWebScanning(userSettings)
  /\ Len(sweeps) = 2
  /\ sweeps[1].phase = "Done"
  /\ sweeps[1].log = <<"200", "NotChecked">>
  /\ AlertsFor(1, 1) # {}
  /\ sweeps[2].phase = "Skipped"

====
